---- MODULE Spec2Model ----
(***************************************************************************)
(* A model of the simples crate: polyline simplification                   *)
(* (Ramer-Douglas-Peucker, Visvalingam-Whyatt) and smoothing (kernel       *)
(* convolution, moving average).                                           *)
(*                                                                         *)
(* Conventions.                                                            *)
(*  - A point is a tuple of integer coordinates; a line is a sequence of   *)
(*    points.  Indices are 0-based as in the source: At(s, i) is s[i].     *)
(*  - The source computes in f64.  The model computes in exact rational    *)
(*    arithmetic: a scalar that need not be an integer is a pair           *)
(*    <<numerator, denominator>>, compared by cross multiplication.        *)
(*    Rounding is not modelled.                                            *)
(*  - A panic (index out of range, unwrap of None, arithmetic overflow in  *)
(*    a build with overflow checks, capacity overflow) ends a call in      *)
(*    pc = "panic".  Where a build without overflow checks goes on with a  *)
(*    wrapped value, both outcomes are successors.                         *)
(*  - Each algorithm is one call: Init draws its arguments, the actions    *)
(*    are the steps of the call, pc = "done" holds its return value.       *)
(***************************************************************************)
EXTENDS Integers, Sequences, FiniteSets, TLC

VARIABLES
    pc,            \* position of the call: a step name, "done", "panic", "overflow", "hang"
    line,          \* the input linestring
    epsilon,       \* rdp_keep: epsilon
    stack,         \* rdp_keep: pending work of the recursion, in evaluation order
    out,           \* rdp_keep / smooth_moving_average: the output vector
    n_points,      \* vw_keep: requested number of points
    closed,        \* vw_keep: whether the line is a polygon
    queue,         \* vw_drop: the heap of triangles
    drop,          \* vw_drop: the set of dropped indices
    exit,          \* vw_drop: how the main loop was left
    trace,         \* vw_drop: the dropped indices in the order of the drops
                   \* (history, not program state)
    tied,          \* vw_drop: whether some pop had several triangles of
                   \* smallest area to choose from (history)
    kernel,        \* smooth_convolve: the kernel
    cache,         \* smooth_convolve: WeightCache.cache
    reflected_l,   \* smooth_convolve: reflected points before the line
    reflected_r,   \* smooth_convolve: reflected points after the line
    current_idx,   \* smooth_convolve: index of the point being smoothed
    these_points,  \* smooth_convolve: (point, weight) pairs collected for it
    smoothed,      \* smooth_convolve: the output vector
    width,         \* smooth_moving_average: the half width of the window
    this_width,    \* smooth_moving_average: the loop variable of the end loops
    reduced,       \* rdp_reduce: the lines the calls made so far returned
    weighed,       \* Kernel::weigh_dist, weigh_dist2: the method, distance and
                   \* weight of the calls made so far
    sample_distance, \* sample_every: the distance between two samples
    sample_offset, \* sample_every: offset, the distance of the first sample
                   \* from the start
    prev,          \* sample_every: the position the walk has reached
    next,          \* sample_every: the vertex the walk heads for
    iter,          \* sample_every: the number of vertices taken from line.iter()
    remaining_dist, \* sample_every: the distance left to the next sample
    remainder      \* sample_every: the second component of the result

vars == <<pc, line, epsilon, stack, out, n_points, closed, queue, drop, exit, trace, tied,
          kernel, cache, reflected_l, reflected_r, current_idx, these_points,
          smoothed, width, this_width, reduced, weighed,
          sample_distance, sample_offset, prev, next, iter, remaining_dist,
          remainder>>

rdpVars == <<epsilon, stack, reduced>>
vwVars == <<n_points, closed, queue, drop, exit, trace, tied>>
convVars == <<kernel, cache, reflected_l, reflected_r, current_idx,
              these_points, smoothed, weighed>>
maVars == <<width, this_width>>
sampleVars == <<sample_distance, sample_offset, prev, next, iter, remaining_dist,
                remainder>>

----------------------------------------------------------------------------
(* Bounds of the model *)

\* coordinates of the points of a 2-D line (RDP, VW) are 0..MaxCoord
MaxCoord == 1
\* longest line given to rdp_keep and vw_keep
MaxLen == 5
\* largest epsilon given to rdp_keep
MaxEps == 1

Coords == 0..MaxCoord
Points2 == Coords \X Coords

\* All sequences over S of length lo..hi
SeqsOf(S, lo, hi) == UNION {[1..n -> S] : n \in lo..hi}

Lines2 == SeqsOf(Points2, 0, MaxLen)

----------------------------------------------------------------------------
(* Sequences with the source's 0-based indices *)

At(s, i) == s[i + 1]

\* &s[from..to], to exclusive
Slice(s, from, to) == SubSeq(s, from + 1, to)

Last(s) == s[Len(s)]

Min(a, b) == IF a <= b THEN a ELSE b

Max(a, b) == IF a >= b THEN a ELSE b

\* the set of elements of a sequence
Range(s) == {s[i] : i \in DOMAIN s}

----------------------------------------------------------------------------
(* Scalars: exact rationals <<num, den>>, den > 0.  <<-1, 0>> is -infinity. *)

NEG_INFINITY == <<-1, 0>>

\* a > b on f64 values
RatGt(a, b) ==
    IF a[2] = 0 THEN FALSE
    ELSE IF b[2] = 0 THEN TRUE
    ELSE a[1] * b[2] > b[1] * a[2]

RatEq(a, b) == a[2] # 0 /\ b[2] # 0 /\ a[1] * b[2] = b[1] * a[2]

----------------------------------------------------------------------------
(* Geometric primitives (nalgebra) *)

RECURSIVE DotFrom(_, _, _)
DotFrom(u, v, i) ==
    IF i > Len(u) THEN 0 ELSE u[i] * v[i] + DotFrom(u, v, i + 1)

\* u . v
Dot(u, v) == DotFrom(u, v, 1)

\* p - q
Sub(p, q) == [i \in DOMAIN p |-> p[i] - q[i]]

\* nalgebra::distance_squared
DistanceSquared(p, q) == Dot(Sub(p, q), Sub(p, q))

----------------------------------------------------------------------------
(* simplify/rdp.rs *)

\* proj_dist2: squared distance from p to its clamped projection on start-end
proj_dist2(start, end, p, length_sq) ==
    LET lensq_along == Dot(Sub(p, start), Sub(end, start))
    IN  IF lensq_along <= 0 THEN <<DistanceSquared(p, start), 1>>
        ELSE IF lensq_along >= length_sq THEN <<DistanceSquared(p, end), 1>>
        ELSE <<DistanceSquared(p, start) * length_sq - lensq_along * lensq_along,
               length_sq>>

\* rdp_keep_inner, the scan: greatest_dist2 after the points idx.. of the
\* slice sl have been visited; greatest is <<index, d2>>
RECURSIVE ScanGreatest(_, _, _, _)
ScanGreatest(sl, offset, idx, greatest) ==
    IF idx > Len(sl) - 2 THEN greatest
    ELSE LET first == At(sl, 0)
             last == Last(sl)
             length_sq == DistanceSquared(first, last)
             d2 == proj_dist2(first, last, At(sl, idx), length_sq)
         IN  IF RatGt(d2, greatest[2])
             THEN ScanGreatest(sl, offset, idx + 1, <<idx + offset, d2>>)
             ELSE ScanGreatest(sl, offset, idx + 1, greatest)

\* rdp_keep_inner, lines 36-42
greatest_dist2(sl, offset) == ScanGreatest(sl, offset, 1, <<0, NEG_INFINITY>>)

\* the index rdp_keep_inner uses to cut the slice it was given (line 48, 56)
SplitAt(sl, offset) == greatest_dist2(sl, offset)[1]

\* One activation of rdp_keep_inner on the slice sl, up to its recursive
\* calls: what it returns at once ("empty"), that it cuts the slice at g,
\* with or without the left and the right call ("split"), or that the cut of
\* the left sub-slice &line[0..=g] is out of range ("panic"), or that the left
\* sub-slice is the whole slice again, with the same offset ("recurse": the
\* call repeats itself until the thread's stack is exhausted).
RdpInner(sl, epsilon_sq, offset) ==
    IF Len(sl) <= 2 THEN [kind |-> "empty", g |-> 0, left |-> FALSE, right |-> FALSE]
    ELSE LET greatest == greatest_dist2(sl, offset)
             g == SplitAt(sl, offset)
         IN  IF ~RatGt(greatest[2], <<epsilon_sq, 1>>)
             THEN [kind |-> "empty", g |-> 0, left |-> FALSE, right |-> FALSE]
             ELSE IF g > 1 /\ g + 1 > Len(sl)
             THEN [kind |-> "panic", g |-> g, left |-> TRUE, right |-> FALSE]
             ELSE IF g > 1 /\ g + 1 = Len(sl)
             THEN [kind |-> "recurse", g |-> g, left |-> TRUE, right |-> FALSE]
             ELSE [kind |-> "split", g |-> g, left |-> g > 1,
                   right |-> g < Len(sl) - 2]

\* entries of the work stack: a pending call of rdp_keep_inner on
\* &line[base .. base + len] with the argument offset, or a pending
\* to_keep.push(idx)
Call(base, len, offset) == [kind |-> "call", base |-> base, len |-> len,
                            offset |-> offset, idx |-> 0]

Push(idx) == [kind |-> "push", base |-> 0, len |-> 0, offset |-> 0, idx |-> idx]

\* the slice a pending call works on
SliceOf(c) == Slice(line, c.base, c.base + c.len)

\* the recursive calls and the push of one activation, in evaluation order
Children(c, r) ==
    (IF r.left THEN <<Call(c.base, r.g + 1, c.offset)>> ELSE <<>>)
    \o <<Push(r.g)>>
    \o (IF r.right THEN <<Call(c.base + r.g, c.len - r.g, c.offset + r.g)>>
        ELSE <<>>)

\* a - b on usize in a build without overflow checks.  A wrapped result
\* 2^64 - k is written -k: it is no index of any line.
WrappingSub(a, b) == a - b

\* rdp_keep, lines 68-71: out.push(0), then the call of rdp_keep_inner
RdpStart ==
    /\ pc = "rdp_start"
    /\ out' = <<0>>
    /\ stack' = <<Call(0, Len(line), 0)>>
    /\ pc' = "rdp_inner"
    /\ UNCHANGED <<line, epsilon, reduced, vwVars, convVars, maVars, sampleVars>>

\* rdp_keep_inner returns vec![] (lines 28-30, or 45 false)
RdpInnerEmpty ==
    /\ pc = "rdp_inner"
    /\ stack # <<>>
    /\ Head(stack).kind = "call"
    /\ RdpInner(SliceOf(Head(stack)), epsilon * epsilon, Head(stack).offset).kind = "empty"
    /\ stack' = Tail(stack)
    /\ UNCHANGED <<pc, line, epsilon, out, reduced, vwVars, convVars, maVars, sampleVars>>

\* rdp_keep_inner keeps a point and recurses (lines 45-61)
RdpInnerSplit ==
    /\ pc = "rdp_inner"
    /\ stack # <<>>
    /\ Head(stack).kind = "call"
    /\ LET r == RdpInner(SliceOf(Head(stack)), epsilon * epsilon, Head(stack).offset)
       IN  /\ r.kind = "split"
           /\ stack' = Children(Head(stack), r) \o Tail(stack)
    /\ UNCHANGED <<pc, line, epsilon, out, reduced, vwVars, convVars, maVars, sampleVars>>

\* rdp_keep_inner slices past the end of its line (line 48)
RdpInnerPanic ==
    /\ pc = "rdp_inner"
    /\ stack # <<>>
    /\ Head(stack).kind = "call"
    /\ RdpInner(SliceOf(Head(stack)), epsilon * epsilon, Head(stack).offset).kind = "panic"
    /\ pc' = "panic"
    /\ UNCHANGED <<line, epsilon, stack, out, reduced, vwVars, convVars, maVars, sampleVars>>

\* rdp_keep_inner calls itself with its own arguments (line 47): the
\* recursion never returns and the stack overflows
RdpInnerOverflow ==
    /\ pc = "rdp_inner"
    /\ stack # <<>>
    /\ Head(stack).kind = "call"
    /\ RdpInner(SliceOf(Head(stack)), epsilon * epsilon, Head(stack).offset).kind = "recurse"
    /\ pc' = "overflow"
    /\ UNCHANGED <<line, epsilon, stack, out, reduced, vwVars, convVars, maVars, sampleVars>>

\* to_keep.push(greatest_dist2.0) (line 53)
RdpPush ==
    /\ pc = "rdp_inner"
    /\ stack # <<>>
    /\ Head(stack).kind = "push"
    /\ out' = Append(out, Head(stack).idx)
    /\ stack' = Tail(stack)
    /\ UNCHANGED <<pc, line, epsilon, reduced, vwVars, convVars, maVars, sampleVars>>

\* rdp_keep, lines 72-73: out.push(line.len() - 1) and return
RdpFinish ==
    /\ pc = "rdp_inner"
    /\ stack = <<>>
    /\ Len(line) > 0
    /\ out' = Append(out, Len(line) - 1)
    /\ pc' = "done"
    /\ UNCHANGED <<line, epsilon, stack, reduced, vwVars, convVars, maVars, sampleVars>>

\* rdp_keep, line 72 on an empty line: 0 - 1 overflows
RdpFinishOverflow ==
    /\ pc = "rdp_inner"
    /\ stack = <<>>
    /\ Len(line) = 0
    /\ \/ /\ pc' = "panic"
          /\ out' = out
       \/ /\ pc' = "done"
          /\ out' = Append(out, WrappingSub(Len(line), 1))
    /\ UNCHANGED <<line, epsilon, stack, reduced, vwVars, convVars, maVars, sampleVars>>

\* the variables of the other algorithms, which a call does not touch
IdleRdp == epsilon = 0 /\ stack = <<>> /\ reduced = <<>>

IdleVw ==
    /\ n_points = 0
    /\ closed = FALSE
    /\ queue = {}
    /\ drop = {}
    /\ exit = "none"
    /\ trace = <<>>
    /\ tied = FALSE

IdleConv ==
    /\ kernel = 0
    /\ cache = {}
    /\ reflected_l = <<>>
    /\ reflected_r = <<>>
    /\ current_idx = 0
    /\ these_points = <<>>
    /\ smoothed = <<>>
    /\ weighed = <<>>

IdleMa == width = 0 /\ this_width = 0

IdleSample ==
    /\ sample_distance = <<0, 1>>
    /\ sample_offset = <<0, 1>>
    /\ prev = <<0, 1>>
    /\ next = <<0, 1>>
    /\ iter = 0
    /\ remaining_dist = <<0, 1>>
    /\ remainder = <<0, 1>>

InitRdp ==
    /\ pc = "rdp_start"
    /\ line \in Lines2
    /\ epsilon \in 0..MaxEps
    /\ stack = <<>>
    /\ out = <<>>
    /\ reduced = <<>>
    /\ IdleVw
    /\ IdleConv
    /\ IdleMa
    /\ IdleSample

NextRdp ==
    \/ RdpStart
    \/ RdpInnerEmpty
    \/ RdpInnerSplit
    \/ RdpInnerPanic
    \/ RdpInnerOverflow
    \/ RdpPush
    \/ RdpFinish
    \/ RdpFinishOverflow

SpecRdp == InitRdp /\ [][NextRdp]_vars

\* rdp_reduce, line 82: the points of the line at the kept indices; line[idx]
\* panics on an index that is none of the line
RdpReduce ==
    /\ pc = "done"
    /\ IF \A i \in DOMAIN out : out[i] \in 0..(Len(line) - 1)
       THEN /\ reduced' = Append(reduced, [i \in DOMAIN out |-> At(line, out[i])])
            /\ pc' = "reduced"
       ELSE /\ reduced' = reduced
            /\ pc' = "panic"
    /\ UNCHANGED <<line, epsilon, stack, out, vwVars, convVars, maVars, sampleVars>>

\* rdp_reduce called on the line the first call returned, with the same
\* epsilon
RdpReduceAgain ==
    /\ pc = "reduced"
    /\ Len(reduced) = 1
    /\ line' = reduced[1]
    /\ out' = <<>>
    /\ pc' = "rdp_start"
    /\ UNCHANGED <<epsilon, stack, reduced, vwVars, convVars, maVars, sampleVars>>

NextRdpTwice ==
    \/ RdpStart
    \/ RdpInnerEmpty
    \/ RdpInnerSplit
    \/ RdpInnerPanic
    \/ RdpInnerOverflow
    \/ RdpPush
    \/ RdpFinish
    \/ RdpFinishOverflow
    \/ RdpReduce
    \/ RdpReduceAgain

SpecRdpTwice == InitRdp /\ [][NextRdpTwice]_vars

----------------------------------------------------------------------------
(* Claims about rdp_keep *)

\* the call has ended: it returned, panicked or exhausted the stack
RdpEnded == pc \in {"done", "panic", "overflow"}

StrictlyAscending(s) == \A i \in 1..(Len(s) - 1) : s[i] < s[i + 1]

\* C1: for every line of at least 2 points and every epsilon >= 0, rdp_keep
\* returns a list of indices that is strictly ascending, starts with 0, ends
\* with len - 1 and holds only valid indices of the line.
C1_RdpKeepAscendingEndpoints ==
    (RdpEnded /\ Len(line) >= 2) =>
        /\ pc = "done"
        /\ StrictlyAscending(out)
        /\ out[1] = 0
        /\ Last(out) = Len(line) - 1
        /\ \A i \in DOMAIN out : out[i] \in 0..(Len(line) - 1)

\* The reference Ramer-Douglas-Peucker recursion on the range first..last of
\* the line (indices of the whole line): the interior indices it keeps.
RefDist2(l, first, last, i) ==
    proj_dist2(At(l, first), At(l, last), At(l, i),
               DistanceSquared(At(l, first), At(l, last)))

\* the first interior point, in scan order, of maximum distance
RefFarthest(l, first, last) ==
    CHOOSE g \in (first + 1)..(last - 1) :
        /\ \A j \in (first + 1)..(last - 1) :
               ~RatGt(RefDist2(l, first, last, j), RefDist2(l, first, last, g))
        /\ \A j \in (first + 1)..(g - 1) :
               RatGt(RefDist2(l, first, last, g), RefDist2(l, first, last, j))

RECURSIVE RefInner(_, _, _, _)
RefInner(l, epsilon_sq, first, last) ==
    IF last - first < 2 THEN <<>>
    ELSE LET g == RefFarthest(l, first, last)
         IN  IF RatGt(RefDist2(l, first, last, g), <<epsilon_sq, 1>>)
             THEN RefInner(l, epsilon_sq, first, g) \o <<g>>
                  \o RefInner(l, epsilon_sq, g, last)
             ELSE <<>>

RefKeep(l, eps) == <<0>> \o RefInner(l, eps * eps, 0, Len(l) - 1) \o <<Len(l) - 1>>

\* C2: for every line (of at least 2 points) and epsilon >= 0, rdp_keep
\* returns exactly the indices of the reference recursion: in each sub-range
\* the first interior point of maximum clamped projection distance is kept
\* iff its squared distance exceeds epsilon squared, and the sub-range is
\* split at that very point.
C2_RdpKeepIsReference ==
    (RdpEnded /\ Len(line) >= 2) => (pc = "done" /\ out = RefKeep(line, epsilon))

\* the two calls of rdp_reduce have ended: the second returned, or one of
\* them panicked or exhausted the stack
RdpTwiceEnded == pc \in {"panic", "overflow"} \/ (pc = "reduced" /\ Len(reduced) = 2)

\* C12: rdp_reduce is idempotent: for every line (of at least 2 points) and
\* epsilon >= 0, rdp_reduce(rdp_reduce(line, epsilon), epsilon) equals
\* rdp_reduce(line, epsilon).
C12_RdpReduceIdempotent ==
    (RdpTwiceEnded /\ Len(line) >= 2) =>
        (pc = "reduced" /\ Len(reduced) = 2 /\ reduced[2] = reduced[1])

\* C13 (rdp_reduce): for every line of length 0, 1 or 2 and every
\* epsilon >= 0, rdp_reduce returns the line unchanged and does not fail.
\* (The half of the claim about vw_reduce holds: with n_points >= 2 such a
\* line takes the early return of vw_drop.)
C13_ShortLineUnchanged ==
    (Len(line) <= 2 /\ pc \in {"panic", "overflow", "reduced"}) =>
        (pc = "reduced" /\ Last(reduced) = line)

\* the pending call c works on a sub-range of the range of the call p that
\* is strictly shorter and lies inside it
ShorterInside(c, p) ==
    /\ c.len < p.len
    /\ c.base >= p.base
    /\ c.base + c.len <= p.base + p.len

\* C21: rdp_keep terminates on every finite line for every epsilon >= 0:
\* each activation of rdp_keep_inner either returns at once or makes its
\* recursive calls on sub-ranges strictly shorter than its own range and
\* lying inside it (so the recursion reaches sub-ranges of at most 2 points
\* and stops there); no activation cuts outside its range or calls itself
\* on its own range again.
C21_RdpTerminates ==
    [][(pc = "rdp_inner" /\ stack # <<>> /\ Head(stack).kind = "call") =>
           /\ pc' = "rdp_inner"
           /\ \A i \in 1..(Len(stack') - Len(stack) + 1) :
                  stack'[i].kind = "call" => ShorterInside(stack'[i], Head(stack))]_vars

----------------------------------------------------------------------------
(* simplify/vw.rs *)

\* longest line given to vw_keep
MaxLenVw == 5
\* the points of a line given to vw_keep are (i, h), with i the index of the
\* point and h in 0..MaxHeight
MaxHeight == 2

LinesVw ==
    UNION {{[i \in 1..n |-> <<i - 1, h[i]>>] : h \in [1..n -> 0..MaxHeight]} :
           n \in 0..MaxLenVw}

\* tri_area: Heron's formula on the three side lengths.  The model returns
\* (4 * area)^2, which is Heron's formula on the squared side lengths and
\* orders triangles exactly as the area does.
tri_area(p1, p2, p3) ==
    LET a == DistanceSquared(p1, p2)
        b == DistanceSquared(p2, p3)
        c == DistanceSquared(p3, p1)
    IN  2 * (a * b + b * c + c * a) - (a * a + b * b + c * c)

\* Triangle::from_indices; the indices are in range
from_indices(all_points, indices) ==
    [indices |-> indices,
     area |-> tri_area(At(all_points, indices[1]), At(all_points, indices[2]),
                       At(all_points, indices[3]))]

\* Triangle::is_valid
is_valid(tri, skipped) ==
    ~(tri.indices[1] \in skipped \/ tri.indices[2] \in skipped
      \/ tri.indices[3] \in skipped)

\* Triangle::center_index
center_index(tri) == tri.indices[2]

\* neighbours_not_in, the first loop (lines 107-115): the index it ends on,
\* -1 when it returns None, -2 when it comes back to an index it has already
\* tried (the loop never ends).  seen holds the indices tried so far.
RECURSIVE ScanLeft(_, _, _, _, _)
ScanLeft(left, skipped, len, wrapping, seen) ==
    IF left \notin skipped THEN left
    ELSE IF left \in seen THEN -2
    ELSE IF left > 0 THEN ScanLeft(left - 1, skipped, len, wrapping, seen \cup {left})
    ELSE IF wrapping THEN ScanLeft(len - 1, skipped, len, wrapping, seen \cup {left})
    ELSE -1

\* neighbours_not_in, the second loop (lines 116-124), likewise
RECURSIVE ScanRight(_, _, _, _, _)
ScanRight(right, skipped, len, wrapping, seen) ==
    IF right \notin skipped THEN right
    ELSE IF right \in seen THEN -2
    ELSE IF right = len - 1
         THEN ScanRight(right + 1, skipped, len, wrapping, seen \cup {right})
    ELSE IF wrapping THEN ScanRight(0, skipped, len, wrapping, seen \cup {right})
    ELSE -1

NoNeighbours(kind) == [kind |-> kind, left |-> 0, right |-> 0]

\* neighbours_not_in after its guard (lines 107-125)
scan_neighbours(left, right, skipped, len, wrapping) ==
    LET new_left == ScanLeft(left, skipped, len, wrapping, {})
        new_right == ScanRight(right, skipped, len, wrapping, {})
    IN  IF new_left = -2 THEN NoNeighbours("hang")
        ELSE IF new_left = -1 THEN NoNeighbours("none")
        ELSE IF new_right = -2 THEN NoNeighbours("hang")
        ELSE IF new_right = -1 THEN NoNeighbours("none")
        ELSE [kind |-> "some", left |-> new_left, right |-> new_right]

\* neighbours_not_in: the outcomes a build can produce.  len - 3 (line 104)
\* overflows when len < 3: a panic with overflow checks, without them a
\* wrapped value no set is as large as.
neighbours_not_in(left, right, skipped, len, wrapping) ==
    IF len < 3
    THEN {NoNeighbours("panic"), scan_neighbours(left, right, skipped, len, wrapping)}
    ELSE IF Cardinality(skipped) >= len - 3 THEN {NoNeighbours("none")}
    ELSE {scan_neighbours(left, right, skipped, len, wrapping)}

NoTriangle(kind) == [kind |-> kind, tri |-> [indices |-> <<0, 0, 0>>, area |-> 0]]

\* Triangle::get_replacement: the outcomes; from_indices panics on an index
\* that is out of range
get_replacement(tri, points, skipped, wrapping) ==
    {IF nb.kind # "some" THEN NoTriangle(nb.kind)
     ELSE IF nb.left >= Len(points) \/ nb.right >= Len(points) THEN NoTriangle("panic")
     ELSE [kind |-> "some",
           tri |-> from_indices(points, <<nb.left, tri.indices[2], nb.right>>)] :
     nb \in neighbours_not_in(tri.indices[1], tri.indices[3], skipped,
                              Len(points), wrapping)}

\* a faulty heap that holds the two wrapping triangles of every line, open or
\* closed: with it an end point of an open line is a center
InitialQueueAlwaysWraps(l, is_closed) ==
    {from_indices(l, <<idx, idx + 1, idx + 2>>) : idx \in 0..(Len(l) - 3)}
    \cup {from_indices(l, <<Len(l) - 2, Len(l) - 1, 0>>),
          from_indices(l, <<Len(l) - 1, 0, 1>>)}

\* vw_drop, lines 136-145: the heap before the main loop; len >= 2
InitialQueue(l, is_closed) ==
    {from_indices(l, <<idx, idx + 1, idx + 2>>) : idx \in 0..(Len(l) - 3)}
    \cup (IF is_closed
          THEN {from_indices(l, <<Len(l) - 2, Len(l) - 1, 0>>),
                from_indices(l, <<Len(l) - 1, 0, 1>>)}
          ELSE {})

\* BinaryHeap::pop with Triangle's reversed Ord: a triangle of smallest
\* area; which one among equals is left to the heap
PopCandidates(q) == {t \in q : \A u \in q : t.area <= u.area}

\* vw_keep, line 173
Kept(l, dropped) ==
    LET F[i \in 0..Len(l)] ==
            IF i = 0 THEN <<>>
            ELSE IF (i - 1) \in dropped THEN F[i - 1] ELSE Append(F[i - 1], i - 1)
    IN  F[Len(l)]

\* vw_drop, lines 133-135: nothing to drop
VwReturnEarly ==
    /\ pc = "vw_start"
    /\ Len(line) <= Min(2, n_points)
    /\ drop' = {}
    /\ exit' = "early"
    /\ pc' = "vw_collect"
    /\ UNCHANGED <<line, out, n_points, closed, queue, trace, tied, rdpVars, convVars, maVars, sampleVars>>

\* vw_drop, line 137: line.len() - n_points overflows, and with_capacity
\* panics on the wrapped value; line 138: line.len() - 2 overflows, and
\* from_indices panics on the wrapped range
VwStartPanic ==
    /\ pc = "vw_start"
    /\ Len(line) > Min(2, n_points)
    /\ (n_points > Len(line) \/ Len(line) < 2)
    /\ pc' = "panic"
    /\ UNCHANGED <<line, out, vwVars, rdpVars, convVars, maVars, sampleVars>>

\* vw_drop, lines 136-145
VwBuildQueue ==
    /\ pc = "vw_start"
    /\ Len(line) > Min(2, n_points)
    /\ n_points <= Len(line)
    /\ Len(line) >= 2
    /\ queue' = InitialQueue(line, closed)
    /\ drop' = {}
    /\ pc' = "vw_loop"
    /\ UNCHANGED <<line, out, n_points, closed, exit, trace, tied, rdpVars, convVars, maVars, sampleVars>>

\* the main loop goes on (line 146)
LoopGoesOn == pc = "vw_loop" /\ Len(line) - Cardinality(drop) > n_points

\* vw_drop, line 146: the target is reached
VwLoopEnd ==
    /\ pc = "vw_loop"
    /\ ~(Len(line) - Cardinality(drop) > n_points)
    /\ exit' = "target"
    /\ pc' = "vw_collect"
    /\ UNCHANGED <<line, out, n_points, closed, queue, drop, trace, tied, rdpVars, convVars, maVars, sampleVars>>

\* vw_drop, lines 157-159: the heap is empty
VwQueueEmpty ==
    /\ LoopGoesOn
    /\ queue = {}
    /\ exit' = "empty"
    /\ pc' = "vw_collect"
    /\ UNCHANGED <<line, out, n_points, closed, queue, drop, trace, tied, rdpVars, convVars, maVars, sampleVars>>

\* vw_drop, lines 147-149: a valid triangle is popped and its center dropped
VwDrop ==
    /\ LoopGoesOn
    /\ \E tri \in PopCandidates(queue) :
        /\ is_valid(tri, drop)
        /\ queue' = queue \ {tri}
        /\ drop' = drop \cup {center_index(tri)}
        /\ trace' = Append(trace, center_index(tri))
    /\ tied' = (tied \/ Cardinality(PopCandidates(queue)) > 1)
    /\ UNCHANGED <<pc, line, out, n_points, closed, exit, rdpVars, convVars, maVars, sampleVars>>

\* vw_drop, lines 150-152: a stale triangle is popped and replaced
VwReplace ==
    /\ LoopGoesOn
    /\ \E tri \in PopCandidates(queue) :
        /\ ~is_valid(tri, drop)
        /\ \E r \in get_replacement(tri, line, drop, closed) :
            /\ r.kind = "some"
            /\ queue' = (queue \ {tri}) \cup {r.tri}
    /\ tied' = (tied \/ Cardinality(PopCandidates(queue)) > 1)
    /\ UNCHANGED <<pc, line, out, n_points, closed, drop, exit, trace, rdpVars, convVars, maVars, sampleVars>>

\* vw_drop, lines 153-155: no replacement, the loop is left
VwReplaceNone ==
    /\ LoopGoesOn
    /\ \E tri \in PopCandidates(queue) :
        /\ ~is_valid(tri, drop)
        /\ \E r \in get_replacement(tri, line, drop, closed) : r.kind = "none"
        /\ queue' = queue \ {tri}
    /\ exit' = "search"
    /\ pc' = "vw_collect"
    /\ tied' = (tied \/ Cardinality(PopCandidates(queue)) > 1)
    /\ UNCHANGED <<line, out, n_points, closed, drop, trace, rdpVars, convVars, maVars, sampleVars>>

\* get_replacement panics: an index out of range or an overflow
VwReplacePanic ==
    /\ LoopGoesOn
    /\ \E tri \in PopCandidates(queue) :
        /\ ~is_valid(tri, drop)
        /\ \E r \in get_replacement(tri, line, drop, closed) : r.kind = "panic"
        /\ queue' = queue \ {tri}
    /\ pc' = "panic"
    /\ tied' = (tied \/ Cardinality(PopCandidates(queue)) > 1)
    /\ UNCHANGED <<line, out, n_points, closed, drop, exit, trace, rdpVars, convVars, maVars, sampleVars>>

\* neighbours_not_in never returns
VwReplaceHang ==
    /\ LoopGoesOn
    /\ \E tri \in PopCandidates(queue) :
        /\ ~is_valid(tri, drop)
        /\ \E r \in get_replacement(tri, line, drop, closed) : r.kind = "hang"
        /\ queue' = queue \ {tri}
    /\ pc' = "hang"
    /\ tied' = (tied \/ Cardinality(PopCandidates(queue)) > 1)
    /\ UNCHANGED <<line, out, n_points, closed, drop, exit, trace, rdpVars, convVars, maVars, sampleVars>>

\* vw_keep, lines 172-173
VwKeep ==
    /\ pc = "vw_collect"
    /\ out' = Kept(line, drop)
    /\ pc' = "done"
    /\ UNCHANGED <<line, vwVars, rdpVars, convVars, maVars, sampleVars>>

InitVw ==
    /\ pc = "vw_start"
    /\ line \in LinesVw
    /\ n_points \in 0..MaxLenVw
    /\ closed \in BOOLEAN
    /\ queue = {}
    /\ drop = {}
    /\ exit = "none"
    /\ trace = <<>>
    /\ tied = FALSE
    /\ out = <<>>
    /\ IdleRdp
    /\ IdleConv
    /\ IdleMa
    /\ IdleSample

NextVw ==
    \/ VwReturnEarly
    \/ VwStartPanic
    \/ VwBuildQueue
    \/ VwLoopEnd
    \/ VwQueueEmpty
    \/ VwDrop
    \/ VwReplace
    \/ VwReplaceNone
    \/ VwReplacePanic
    \/ VwReplaceHang
    \/ VwKeep

SpecVw == InitVw /\ [][NextVw]_vars

\* The same call on lines of the plane: the first point is the origin, the
\* others lie on the grid (0..MaxCoordVw) x (0..MaxCoordVw)
MaxCoordVw == 2

LinesGrid ==
    {l \in SeqsOf((0..MaxCoordVw) \X (0..MaxCoordVw), 0, MaxLenVw) :
        Len(l) > 0 => l[1] = <<0, 0>>}

InitVwGrid ==
    /\ pc = "vw_start"
    /\ line \in LinesGrid
    /\ n_points \in 0..MaxLenVw
    /\ closed \in BOOLEAN
    /\ queue = {}
    /\ drop = {}
    /\ exit = "none"
    /\ trace = <<>>
    /\ tied = FALSE
    /\ out = <<>>
    /\ IdleRdp
    /\ IdleConv
    /\ IdleMa
    /\ IdleSample

SpecVwGrid == InitVwGrid /\ [][NextVw]_vars

----------------------------------------------------------------------------
(* Claims about vw_keep *)

\* the call has ended: it returned, panicked or loops forever
VwEnded == pc \in {"done", "panic", "hang"}

\* C3: for every open line and every n_points >= 2, vw_keep returns exactly
\* min(line length, n_points) indices whenever neighbour search does not
\* fail; in particular, asking for at least as many points as the line has
\* returns the whole line.
C3_VwKeepCount ==
    (VwEnded /\ ~closed /\ n_points >= 2 /\ exit # "search") =>
        (pc = "done" /\ Len(out) = Min(Len(line), n_points))

\* C14: vw_keep / vw_reduce called with a degenerate target count
\* (n_points < 2) is a hard failure: the call never returns a result and the
\* count is never silently clamped.
C14_VwDegenerateCountFails == (VwEnded /\ n_points < 2) => pc = "panic"

\* C18: vw_keep / vw_reduce terminate for every finite line, every
\* n_points >= 2 and both values of closed: the main loop and the neighbour
\* search never run forever, whatever the order of the pops.  (pc = "hang"
\* is the state of a loop that never ends.)
C18_VwTerminates == n_points >= 2 => pc # "hang"

\* the nearest live index before c (cyclically when wrapping), given the
\* dropped set d; c itself when there is none
NearestLiveLeft(c, d, len, wrapping) ==
    IF wrapping
    THEN LET k == CHOOSE k \in 1..len :
                    /\ ((c - k) % len) \notin d \/ k = len
                    /\ \A j \in 1..(k - 1) : ((c - j) % len) \in d
         IN  (c - k) % len
    ELSE IF \E j \in 0..(c - 1) : j \notin d
         THEN CHOOSE j \in 0..(c - 1) :
                  j \notin d /\ \A i \in (j + 1)..(c - 1) : i \in d
         ELSE c

\* the nearest live index after c
NearestLiveRight(c, d, len, wrapping) ==
    IF wrapping
    THEN LET k == CHOOSE k \in 1..len :
                    /\ ((c + k) % len) \notin d \/ k = len
                    /\ \A j \in 1..(k - 1) : ((c + j) % len) \in d
         IN  (c + k) % len
    ELSE IF \E j \in (c + 1)..(len - 1) : j \notin d
         THEN CHOOSE j \in (c + 1)..(len - 1) :
                  j \notin d /\ \A i \in (c + 1)..(j - 1) : i \in d
         ELSE c

\* the area of the triangle the live point c forms with its two nearest live
\* neighbours
EffectiveArea(l, c, d, wrapping) ==
    tri_area(At(l, NearestLiveLeft(c, d, Len(l), wrapping)), At(l, c),
             At(l, NearestLiveRight(c, d, Len(l), wrapping)))

\* the live points Visvalingam-Whyatt may drop: every live point of a
\* polygon, the interior live points of an open line
Droppable(l, d, wrapping) ==
    {c \in 0..(Len(l) - 1) :
        c \notin d /\ (wrapping \/ (c > 0 /\ c < Len(l) - 1))}

\* the k-th drop took a point of minimum effective area
DropIsMinimal(k) ==
    LET d == {trace[j] : j \in 1..(k - 1)}
    IN  \A c \in Droppable(line, d, closed) :
            EffectiveArea(line, trace[k], d, closed) <= EffectiveArea(line, c, d, closed)

\* C4: each point that is dropped is, at the moment it is dropped, the center
\* of a triangle of minimum area among the triangles formed by every
\* still-droppable live point with its two nearest live neighbours (the
\* result is that of classical Visvalingam-Whyatt).
\* It is stated of the runs in which no pop had triangles of equal smallest
\* area to choose from: there the order of the heap is that of the areas.
C4_VwDropsMinimumArea == ~tied => \A k \in 1..Len(trace) : DropIsMinimal(k)

\* C5: for every open line and every n_points, the set of dropped indices
\* never holds index 0 or the last index, in every state of the main loop.
C5_VwOpenDropsInterior ==
    ~closed => (0 \notin drop /\ (Len(line) - 1) \notin drop)

\* C5 witness: an open line in the main loop, after a drop and with a
\* replaced triangle on the heap
C5_Witness ==
    /\ pc = "vw_loop"
    /\ ~closed
    /\ drop # {}
    /\ \E t \in queue : t.indices[1] + 1 < t.indices[2]

\* the first index not in d of the cyclic sequence start, start + step,
\* start + 2 * step, ... (mod len)
CyclicFirstLive(start, step, d, len) ==
    LET k == CHOOSE k \in 0..len :
                 /\ k = len \/ ((start + step * k) % len) \notin d
                 /\ \A j \in 0..(k - 1) : ((start + step * j) % len) \in d
    IN  (start + step * k) % len

\* a step of the main loop that pops a stale triangle: nothing is dropped
PopsStale == LoopGoesOn /\ queue # {} /\ drop' = drop /\ (queue' # queue \/ pc' # pc)

\* the step puts a triangle with the corners of Corners(tri) in the place of
\* a triangle tri of the heap
Replaces(Corners(_)) ==
    /\ pc' = "vw_loop"
    /\ \E tri \in queue \ queue' :
           queue' \ queue = {from_indices(line, Corners(tri))}

\* C19: for closed lines the neighbour search wraps modulo the line length:
\* the right corner of the replacement is the first non-dropped index of
\* right, right + 1, ..., len - 1, 0, 1, ..., its left corner the first of
\* left, left - 1, ..., 0, len - 1, ..., and every corner of every triangle
\* built is an index in 0..len-1.
C19_VwClosedWraps ==
    [][(closed /\ PopsStale /\ Cardinality(drop) < Len(line) - 3) =>
           Replaces(LAMBDA tri :
               <<CyclicFirstLive(tri.indices[1], Len(line) - 1, drop, Len(line)),
                 tri.indices[2],
                 CyclicFirstLive(tri.indices[3], 1, drop, Len(line))>>)]_vars

\* the nearest index not in d at or below i; i itself when there is none
LiveAtOrBelow(i, d) ==
    IF \E j \in 0..i : j \notin d
    THEN CHOOSE j \in 0..i : j \notin d /\ \A h \in (j + 1)..i : h \in d
    ELSE i

\* the nearest index not in d at or above i, below len
LiveAtOrAbove(i, d, len) ==
    IF \E j \in i..(len - 1) : j \notin d
    THEN CHOOSE j \in i..(len - 1) : j \notin d /\ \A h \in i..(j - 1) : h \in d
    ELSE i

\* C20: when a stale triangle is popped on an open line while more than 3
\* live points remain, a replacement is pushed whose center is unchanged,
\* whose left corner is the nearest non-dropped index at or below the
\* original left corner and whose right corner is the nearest non-dropped
\* index at or above the original right corner; the loop only stops early
\* when there is no such live neighbour before the end of the line (on an
\* open line the two end points are never dropped, so there always is one).
C20_VwOpenReplacement ==
    [][(~closed /\ PopsStale /\ Len(line) - Cardinality(drop) > 3) =>
           Replaces(LAMBDA tri :
               <<LiveAtOrBelow(tri.indices[1], drop),
                 tri.indices[2],
                 LiveAtOrAbove(tri.indices[3], drop, Len(line))>>)]_vars

----------------------------------------------------------------------------
(* smooth.rs: kernels, WeightCache, smooth_convolve *)

\* The lines given to the smoothers are lines of 1-dimensional points <<x>>,
\* x in 0..MaxCoordS: every distance between two points is then an integer.
MaxCoordS == 3
\* longest line given to smooth_convolve
MaxLenS == 4
\* the kernels are Linear::new(max_dist), max_dist in 0..MaxDist
MaxDist == 3

LinesS == SeqsOf({<<x>> : x \in 0..MaxCoordS}, 0, MaxLenS)

Kernels == {[type |-> "Linear", max_dist |-> m] : m \in 0..MaxDist}

\* Option<Precision>
Some(w) == [some |-> TRUE, w |-> w]

None == [some |-> FALSE, w |-> 0]

\* f64::sqrt, on the squares the model meets
Sqrt(n) == CHOOSE r \in 0..n : r * r = n

\* The weights of a Gaussian kernel are values of exp: exp(-a/b) is written
\* <<a, b>>, b > 0, and two of them compare as their exponents do.
\* gaussian_dist2
gaussian_dist2(variance, dist2) == <<dist2, 2 * variance>>

\* gaussian_dist
gaussian_dist(variance, dist) == gaussian_dist2(variance, dist * dist)

\* exp(-a) > exp(-b)
ExpGt(a, b) == a[1] * b[2] < b[1] * a[2]

\* Gaussian::new; stdev and width are kept beside the fields of the struct
Gaussian(stdev, gwidth) ==
    [type |-> "Gaussian",
     double_variance |-> stdev * stdev * 2,
     cut_off_weight |-> gaussian_dist(stdev * stdev, stdev * gwidth),
     at_center |-> gaussian_dist2(stdev * stdev, 0),
     stdev |-> stdev,
     width |-> gwidth]

\* Gaussian::weigh_dist2
GaussianWeighDist2(k, dist2) ==
    LET w == <<dist2, k.double_variance>>
    IN  IF ExpGt(w, k.cut_off_weight) THEN None ELSE Some(w)

\* Linear::weigh_dist
LinearWeighDist(k, dist) ==
    IF dist > k.max_dist THEN None ELSE Some(k.max_dist - dist)

\* Kernel::weigh_dist: Linear::weigh_dist, Gaussian::weigh_dist
weigh_dist(k, dist) ==
    IF k.type = "Linear" THEN LinearWeighDist(k, dist)
    ELSE GaussianWeighDist2(k, dist * dist)

\* Kernel::weigh_dist2: the default method for Linear, Gaussian::weigh_dist2
weigh_dist2(k, dist2) ==
    IF k.type = "Linear" THEN weigh_dist(k, Sqrt(dist2))
    ELSE GaussianWeighDist2(k, dist2)

\* Kernel::at_center
at_center(k) == IF k.type = "Linear" THEN k.max_dist ELSE k.at_center

\* the outcome of a cache access: the weight, the cache afterwards, or a
\* panic on an index out of range
Weighed(c, w) == [kind |-> "ok", cache |-> c, w |-> w]

Panicked(c) == [kind |-> "panic", cache |-> c, w |-> None]

\* WeightCache::get_weight_unchecked; the cache is a set of entries
\* [key, w], at most one per key
get_weight_unchecked(c, l, k, idx1, idx2) ==
    LET key == <<idx1, idx2>>
    IN  IF \E e \in c : e.key = key
        THEN Weighed(c, (CHOOSE e \in c : e.key = key).w)
        ELSE IF idx1 < 0 \/ idx1 >= Len(l) \/ idx2 < 0 \/ idx2 >= Len(l)
        THEN Panicked(c)
        ELSE LET w == weigh_dist2(k, DistanceSquared(At(l, idx1), At(l, idx2)))
             IN  Weighed(c \cup {[key |-> key, w |-> w]}, w)

\* WeightCache::get_weight
get_weight(c, l, k, idx1, idx2) ==
    IF idx1 = idx2 THEN Weighed(c, Some(at_center(k)))
    ELSE LET lesser == Min(idx1, idx2)
             greater == Max(idx1, idx2)
         IN  IF lesser >= Len(l) THEN Weighed(c, None)
             ELSE get_weight_unchecked(c, l, k, lesser, greater)

\* reflect_point
reflect_point(reflect, reflect_around) ==
    [i \in DOMAIN reflect |-> 2 * reflect_around[i] - reflect[i]]

\* the outcome of a loop of smooth_convolve: the (point, weight) pairs it
\* collected, the cache afterwards, and to_reflect where the loop sets it
Collected(kind, c, points, to_reflect) ==
    [kind |-> kind, cache |-> c, points |-> points, to_reflect |-> to_reflect]

\* smooth_convolve, lines 228-236, from idx on
RECURSIVE ReflectedL(_, _, _, _, _)
ReflectedL(c, l, k, idx, acc) ==
    LET r == get_weight(c, l, k, 0, idx)
    IN  IF r.kind = "panic" THEN Collected("panic", r.cache, acc, 0)
        ELSE IF ~r.w.some THEN Collected("ok", r.cache, acc, 0)
        ELSE ReflectedL(r.cache, l, k, idx + 1,
                        Append(acc, <<reflect_point(At(l, idx), At(l, 0)), r.w.w>>))

\* smooth_convolve, lines 238-246, from idx on; last_idx - idx overflows when
\* idx > last_idx, and the wrapped index is out of range
RECURSIVE ReflectedR(_, _, _, _, _)
ReflectedR(c, l, k, idx, acc) ==
    LET last_idx == Len(l) - 1
        r == IF idx > last_idx THEN Panicked(c)
             ELSE get_weight(c, l, k, last_idx, last_idx - idx)
    IN  IF r.kind = "panic" THEN Collected("panic", r.cache, acc, 0)
        ELSE IF ~r.w.some THEN Collected("ok", r.cache, acc, 0)
        ELSE ReflectedR(r.cache, l, k, idx + 1,
                        Append(acc, <<reflect_point(At(l, last_idx - idx), At(l, last_idx)),
                                      r.w.w>>))

\* smooth_convolve, lines 255-270: the walk forward from current, from
\* idx_diff on
RECURSIVE WalkForward(_, _, _, _, _, _)
WalkForward(c, l, k, current, idx_diff, acc) ==
    LET next_idx == current + idx_diff
    IN  IF next_idx >= Len(l) THEN Collected("ok", c, acc, next_idx - Len(l))
        ELSE LET r == get_weight_unchecked(c, l, k, current, next_idx)
             IN  IF r.kind = "panic" THEN Collected("panic", r.cache, acc, 0)
                 ELSE IF ~r.w.some THEN Collected("ok", r.cache, acc, 0)
                 ELSE WalkForward(r.cache, l, k, current, idx_diff + 1,
                                  Append(acc, <<At(l, next_idx), r.w.w>>))

\* smooth_convolve, lines 277-289: the walk backward
RECURSIVE WalkBackward(_, _, _, _, _, _)
WalkBackward(c, l, k, current, idx_diff, acc) ==
    IF current < idx_diff THEN Collected("ok", c, acc, idx_diff - current)
    ELSE LET next_idx == current - idx_diff
             r == get_weight_unchecked(c, l, k, current, next_idx)
         IN  IF r.kind = "panic" THEN Collected("panic", r.cache, acc, 0)
             ELSE IF ~r.w.some THEN Collected("ok", r.cache, acc, 0)
             ELSE WalkBackward(r.cache, l, k, current, idx_diff + 1,
                               Append(acc, <<At(l, next_idx), r.w.w>>))

\* iter.take(n)
Take(s, n) == SubSeq(s, 1, Min(n, Len(s)))

RECURSIVE SumWeights(_, _)
SumWeights(pw, i) == IF i > Len(pw) THEN 0 ELSE pw[i][2] + SumWeights(pw, i + 1)

RECURSIVE SumWeighted(_, _, _)
SumWeighted(pw, i, d) ==
    IF i > Len(pw) THEN 0 ELSE pw[i][1][d] * pw[i][2] + SumWeighted(pw, i + 1, d)

\* weighted_mean: the point sum(point * weight) / sum(weight), kept as the
\* numerators and the common denominator; den = 0 is a division by zero
weighted_mean(point_weights) ==
    [num |-> [d \in DOMAIN point_weights[1][1] |-> SumWeighted(point_weights, 1, d)],
     den |-> SumWeights(point_weights, 1)]

\* smooth_convolve, lines 215-219: first().unwrap() panics on an empty line
ConvStart ==
    /\ pc = "conv_start"
    /\ pc' = IF Len(line) = 0 THEN "panic" ELSE "conv_reflect_l"
    /\ cache' = {}
    /\ UNCHANGED <<line, out, weighed, kernel, reflected_l, reflected_r, current_idx,
                   these_points, smoothed, rdpVars, vwVars, maVars, sampleVars>>

\* smooth_convolve, lines 228-236
ConvReflectL ==
    /\ pc = "conv_reflect_l"
    /\ LET r == ReflectedL(cache, line, kernel, 1, <<>>)
       IN  /\ cache' = r.cache
           /\ reflected_l' = r.points
           /\ pc' = IF r.kind = "panic" THEN "panic" ELSE "conv_reflect_r"
    /\ UNCHANGED <<line, out, weighed, kernel, reflected_r, current_idx, these_points,
                   smoothed, rdpVars, vwVars, maVars, sampleVars>>

\* smooth_convolve, lines 238-246
ConvReflectR ==
    /\ pc = "conv_reflect_r"
    /\ LET r == ReflectedR(cache, line, kernel, 1, <<>>)
       IN  /\ cache' = r.cache
           /\ reflected_r' = r.points
           /\ pc' = IF r.kind = "panic" THEN "panic" ELSE "conv_forward"
    /\ current_idx' = 0
    /\ UNCHANGED <<line, out, weighed, kernel, reflected_l, these_points, smoothed,
                   rdpVars, vwVars, maVars, sampleVars>>

\* smooth_convolve, lines 250-272: the point itself, its neighbours ahead,
\* and the reflected points past the end
ConvForward ==
    /\ pc = "conv_forward"
    /\ current_idx < Len(line)
    /\ LET r == WalkForward(cache, line, kernel, current_idx, 1,
                            <<<<At(line, current_idx), at_center(kernel)>>>>)
       IN  /\ cache' = r.cache
           /\ these_points' = r.points \o Take(reflected_r, r.to_reflect)
           /\ pc' = IF r.kind = "panic" THEN "panic" ELSE "conv_backward"
    /\ UNCHANGED <<line, out, weighed, kernel, reflected_l, reflected_r, current_idx,
                   smoothed, rdpVars, vwVars, maVars, sampleVars>>

\* smooth_convolve, lines 274-293: the neighbours behind, the reflected points
\* before the start, and the weighted mean
ConvBackward ==
    /\ pc = "conv_backward"
    /\ LET r == WalkBackward(cache, line, kernel, current_idx, 1, these_points)
           all == r.points \o Take(reflected_l, r.to_reflect)
       IN  /\ cache' = r.cache
           /\ these_points' = all
           /\ smoothed' = IF r.kind = "panic" THEN smoothed
                          ELSE Append(smoothed, weighted_mean(all))
           /\ pc' = IF r.kind = "panic" THEN "panic" ELSE "conv_forward"
    /\ current_idx' = current_idx + 1
    /\ UNCHANGED <<line, out, weighed, kernel, reflected_l, reflected_r, rdpVars, vwVars, maVars, sampleVars>>

\* smooth_convolve, line 296
ConvReturn ==
    /\ pc = "conv_forward"
    /\ current_idx = Len(line)
    /\ pc' = "done"
    /\ UNCHANGED <<line, out, convVars, rdpVars, vwVars, maVars, sampleVars>>

InitConv ==
    /\ pc = "conv_start"
    /\ line \in LinesS
    /\ kernel \in Kernels
    /\ cache = {}
    /\ reflected_l = <<>>
    /\ reflected_r = <<>>
    /\ current_idx = 0
    /\ these_points = <<>>
    /\ smoothed = <<>>
    /\ weighed = <<>>
    /\ out = <<>>
    /\ IdleRdp
    /\ IdleVw
    /\ IdleMa
    /\ IdleSample

NextConv ==
    \/ ConvStart
    \/ ConvReflectL
    \/ ConvReflectR
    \/ ConvForward
    \/ ConvBackward
    \/ ConvReturn

SpecConv == InitConv /\ [][NextConv]_vars

----------------------------------------------------------------------------
(* Claims about smooth_convolve *)

ConvEnded == pc \in {"done", "panic"}

\* the smoothed point sp is the point p
SamePoint(sp, p) == sp.den # 0 /\ \A d \in DOMAIN p : sp.num[d] = p[d] * sp.den

\* smoothed is the line, point for point
Unchanged == 
    /\ Len(smoothed) = Len(line)
    /\ \A i \in 1..Len(line) : SamePoint(smoothed[i], line[i])

\* C6: for every input line and every kernel, smooth_convolve returns a
\* sequence with exactly as many points as the input line.
C6_ConvolveSameLength == ConvEnded => (pc = "done" /\ Len(smoothed) = Len(line))

\* a straight line of at least 2 points, evenly spaced with a step # 0
EvenlySpaced(l) ==
    /\ Len(l) >= 2
    /\ l[1] # l[2]
    /\ \A i \in 1..(Len(l) - 1) : Sub(l[i + 1], l[i]) = Sub(l[2], l[1])

\* the kernel reaches the neighbour of a point and not from one end of the
\* line to the other
ReachesFewNeighbours(l, k) ==
    /\ weigh_dist2(k, DistanceSquared(l[1], l[2])).some
    /\ ~weigh_dist2(k, DistanceSquared(l[1], l[Len(l)])).some

\* C7: smooth_convolve returns a perfectly straight, evenly spaced line as it
\* is: every output point, the first and the last included, equals the input
\* point (with a kernel that reaches a few neighbours, not the whole line).
C7_ConvolveFixesStraightLine ==
    (ConvEnded /\ EvenlySpaced(line) /\ ReachesFewNeighbours(line, kernel)) =>
        (pc = "done" /\ Unchanged)

\* C8: smooth_convolve returns a constant line (all points identical)
\* unchanged.
C8_ConvolveFixesConstantLine ==
    (ConvEnded /\ Len(line) >= 1 /\ \A i \in 1..Len(line) : line[i] = line[1]) =>
        (pc = "done" /\ Unchanged)

\* C22: throughout a smooth_convolve call every key of the weight cache is
\* an index pair normalised to (min, max): no key has its greater index
\* first, so no unordered pair {i, j} of distinct indices is held (and
\* computed) under both (i, j) and (j, i), and no key has equal indices
\* (equal indices return the center weight without touching the cache).
C22_CacheKeysNormalised ==
    \A e \in cache : e.key[1] < e.key[2]

----------------------------------------------------------------------------
(* smooth.rs: mean, smooth_moving_average *)

\* coordinates of the 1-D points given to smooth_moving_average
MaxCoordMa == 1
\* longest line given to smooth_moving_average
MaxLenMa == 7
\* largest width given to smooth_moving_average
MaxWidth == 3

LinesMa == SeqsOf({<<x>> : x \in 0..MaxCoordMa}, 0, MaxLenMa)

\* a point of the line as an output point
Exact(p) == [num |-> p, den |-> 1]

RECURSIVE SumCoord(_, _, _)
SumCoord(points, i, d) ==
    IF i > Len(points) THEN 0 ELSE points[i][d] + SumCoord(points, i + 1, d)

\* mean: the fold starts from the first point and runs over points.iter(),
\* the whole slice
mean(points) ==
    [num |-> [d \in DOMAIN points[1] |-> points[1][d] + SumCoord(points, 1, d)],
     den |-> Len(points)]

\* the means of line.windows(size), in order; no window when size > len
WindowMeans(l, size) ==
    [j \in 1..Max(0, Len(l) - size + 1) |-> mean(SubSeq(l, j, j + size - 1))]

\* a faulty early return that gives the line back in reverse order
MaReturnLineReversed ==
    /\ pc = "ma_start"
    /\ Len(line) <= Max(2, width)
    /\ out' = [i \in 1..Len(line) |-> Exact(line[Len(line) + 1 - i])]
    /\ pc' = "done"
    /\ UNCHANGED <<line, maVars, rdpVars, vwVars, convVars, sampleVars>>

\* smooth_moving_average, lines 36-38
MaReturnLine ==
    /\ pc = "ma_start"
    /\ Len(line) <= Max(2, width)
    /\ out' = [i \in 1..Len(line) |-> Exact(line[i])]
    /\ pc' = "done"
    /\ UNCHANGED <<line, maVars, rdpVars, vwVars, convVars, sampleVars>>

\* smooth_moving_average, line 39
MaStart ==
    /\ pc = "ma_start"
    /\ Len(line) > Max(2, width)
    /\ out' = <<Exact(line[1])>>
    /\ this_width' = 1
    /\ pc' = "ma_head"
    /\ UNCHANGED <<line, width, rdpVars, vwVars, convVars, sampleVars>>

\* smooth_moving_average, lines 40-43: one turn of the first loop;
\* line[0..this_window] panics when the window is longer than the line
MaHead ==
    /\ pc = "ma_head"
    /\ this_width < width
    /\ LET this_window == this_width * 2 + 1
       IN  IF this_window > Len(line)
           THEN pc' = "panic" /\ UNCHANGED <<out, this_width>>
           ELSE /\ out' = Append(out, mean(Slice(line, 0, this_window)))
                /\ this_width' = this_width + 1
                /\ pc' = pc
    /\ UNCHANGED <<line, width, rdpVars, vwVars, convVars, sampleVars>>

\* smooth_moving_average, lines 44-46
MaWindows ==
    /\ pc = "ma_head"
    /\ this_width >= width
    /\ out' = out \o WindowMeans(line, 2 * width + 1)
    /\ this_width' = 1
    /\ pc' = "ma_tail"
    /\ UNCHANGED <<line, width, rdpVars, vwVars, convVars, sampleVars>>

\* smooth_moving_average, lines 47-50: one turn of the last loop
MaTail ==
    /\ pc = "ma_tail"
    /\ this_width < width
    /\ LET this_window == this_width * 2 + 1
       IN  IF this_window > Len(line)
           THEN pc' = "panic" /\ UNCHANGED <<out, this_width>>
           ELSE /\ out' = Append(out, mean(Slice(line, Len(line) - this_window, Len(line))))
                /\ this_width' = this_width + 1
                /\ pc' = pc
    /\ UNCHANGED <<line, width, rdpVars, vwVars, convVars, sampleVars>>

\* smooth_moving_average, lines 51-53
MaReturn ==
    /\ pc = "ma_tail"
    /\ this_width >= width
    /\ out' = Append(out, Exact(Last(line)))
    /\ pc' = "done"
    /\ UNCHANGED <<line, maVars, rdpVars, vwVars, convVars, sampleVars>>

InitMa ==
    /\ pc = "ma_start"
    /\ line \in LinesMa
    /\ width \in 0..MaxWidth
    /\ this_width = 0
    /\ out = <<>>
    /\ IdleRdp
    /\ IdleVw
    /\ IdleConv
    /\ IdleSample

NextMa ==
    \/ MaReturnLine
    \/ MaStart
    \/ MaHead
    \/ MaWindows
    \/ MaTail
    \/ MaReturn

SpecMa == InitMa /\ [][NextMa]_vars

----------------------------------------------------------------------------
(* Claims about smooth_moving_average *)

MaEnded == pc \in {"done", "panic"}

\* C9: for every line and every width, smooth_moving_average returns a
\* sequence with exactly as many points as the input line (width = 0 and
\* lines shorter than 2 * width + 1 included).
C9_MovingAverageSameLength == MaEnded => (pc = "done" /\ Len(out) = Len(line))

\* the unweighted arithmetic mean of the 2k+1 points centred on index i
CentredMean(l, i, k) ==
    LET window == Slice(l, i - k, i + k + 1)
    IN  [num |-> [d \in DOMAIN l[1] |-> SumCoord(window, 1, d)], den |-> 2 * k + 1]

\* two output points are the same point
SameMean(a, b) == \A d \in DOMAIN a.num : a.num[d] * b.den = b.num[d] * a.den

\* C10: for a line longer than max(2, width), the point output at position i
\* is the unweighted arithmetic mean of the 2k+1 consecutive input points
\* centred on i, k = min(width, i, len-1-i).
C10_MovingAverageIsCentredMean ==
    (pc = "done" /\ Len(line) > Max(2, width)) =>
        \A i \in 0..(Len(line) - 1) :
            /\ i < Len(out)
            /\ SameMean(At(out, i), CentredMean(line, i, Min(width, Min(i, Len(line) - 1 - i))))

\* C11: smooth_moving_average returns the input line unchanged, point for
\* point, whenever the line length is <= max(2, width).
C11_MovingAverageShortLineUnchanged ==
    (MaEnded /\ Len(line) <= Max(2, width)) =>
        /\ pc = "done"
        /\ Len(out) = Len(line)
        /\ \A i \in 1..Len(line) : SamePoint(out[i], line[i])

\* C11 witness: a line of 3 points that are not all the same came back from
\* the early return
C11_Witness ==
    /\ pc = "done"
    /\ Len(line) = 3
    /\ width = 3
    /\ line[1] # line[3]
    /\ Len(out) = 3

----------------------------------------------------------------------------
(* smooth.rs: the kernels on their own *)

\* the Gaussian kernels are Gaussian::new(stdev, width), stdev in 1..MaxStdev
MaxStdev == 2
\* and width in 0..MaxGaussWidth
MaxGaussWidth == 2
\* the distances weighed are 0..MaxWeighDist
MaxWeighDist == 5
\* weigh_dist and weigh_dist2 are called MaxCalls times on a kernel
MaxCalls == 2

GaussianKernels ==
    {Gaussian(sd, w) : sd \in 1..MaxStdev, w \in 0..MaxGaussWidth}

\* kernel.weigh_dist(dist)
KernelWeighDist ==
    /\ pc = "weigh"
    /\ Len(weighed) < MaxCalls
    /\ \E dist \in 0..MaxWeighDist :
           weighed' = Append(weighed, [method |-> "weigh_dist", dist |-> dist,
                                       weight |-> weigh_dist(kernel, dist)])
    /\ UNCHANGED <<pc, line, out, kernel, cache, reflected_l, reflected_r, current_idx,
                   these_points, smoothed, rdpVars, vwVars, maVars, sampleVars>>

\* kernel.weigh_dist2(dist * dist)
KernelWeighDist2 ==
    /\ pc = "weigh"
    /\ Len(weighed) < MaxCalls
    /\ \E dist \in 0..MaxWeighDist :
           weighed' = Append(weighed, [method |-> "weigh_dist2", dist |-> dist,
                                       weight |-> weigh_dist2(kernel, dist * dist)])
    /\ UNCHANGED <<pc, line, out, kernel, cache, reflected_l, reflected_r, current_idx,
                   these_points, smoothed, rdpVars, vwVars, maVars, sampleVars>>

InitKernel ==
    /\ pc = "weigh"
    /\ kernel \in Kernels \cup GaussianKernels
    /\ weighed = <<>>
    /\ line = <<>>
    /\ out = <<>>
    /\ cache = {}
    /\ reflected_l = <<>>
    /\ reflected_r = <<>>
    /\ current_idx = 0
    /\ these_points = <<>>
    /\ smoothed = <<>>
    /\ IdleRdp
    /\ IdleVw
    /\ IdleMa
    /\ IdleSample

NextKernel ==
    \/ KernelWeighDist
    \/ KernelWeighDist2

SpecKernel == InitKernel /\ [][NextKernel]_vars

----------------------------------------------------------------------------
(* Claims about the kernels *)

\* the cutoff distance of a kernel: max_dist, stdev * width
CutOff(k) == IF k.type = "Linear" THEN k.max_dist ELSE k.stdev * k.width

\* weight a >= weight b, weights of the kernel k
WeightGe(k, a, b) == IF k.type = "Linear" THEN a >= b ELSE ~ExpGt(b, a)

\* C15: both kernels have a cutoff: weigh returns Some(weight) for every
\* distance up to the cutoff and None for every distance beyond it, and the
\* weight does not grow with the distance (Linear: max_dist - distance up to
\* max_dist; Gaussian: None beyond stdev * width).
C15_KernelsCutOffMonotone ==
    pc = "weigh" =>
        /\ \A i \in DOMAIN weighed :
               /\ weighed[i].weight.some <=> weighed[i].dist <= CutOff(kernel)
               /\ (kernel.type = "Linear" /\ weighed[i].weight.some) =>
                      weighed[i].weight.w = kernel.max_dist - weighed[i].dist
        /\ \A i, j \in DOMAIN weighed :
               (/\ weighed[i].dist <= weighed[j].dist
                /\ weighed[i].weight.some
                /\ weighed[j].weight.some) =>
                   WeightGe(kernel, weighed[i].weight.w, weighed[j].weight.w)

----------------------------------------------------------------------------
(* simplify/sample.rs: sample_every, resample; lib.rs: total_length *)

\* The lines sampled are lines of 1-dimensional points <<x>>, x in
\* 0..MaxCoordSample: the length of an edge is an integer and a position on
\* the line is a rational <<num, den>>, den > 0, in lowest terms.
MaxCoordSample == 2
\* longest line sampled
MaxLenSample == 4
\* sample_distance is 0..MaxSampleDist
MaxSampleDist == 2
\* offset is 0..MaxOffset
MaxOffset == 3
\* resample is asked for 2..MaxPoints points
MaxPoints == 4

LinesSample == SeqsOf({<<x>> : x \in 0..MaxCoordSample}, 0, MaxLenSample)

Abs(x) == IF x < 0 THEN 0 - x ELSE x

RECURSIVE Gcd(_, _)
Gcd(a, b) == IF b = 0 THEN a ELSE Gcd(b, a % b)

\* the rational n / d, d > 0, in lowest terms
Rat(n, d) == LET g == Gcd(Abs(n), d) IN <<n \div g, d \div g>>

RatAdd(a, b) == Rat(a[1] * b[2] + b[1] * a[2], a[2] * b[2])

RatSub(a, b) == Rat(a[1] * b[2] - b[1] * a[2], a[2] * b[2])

RatAbs(a) == <<Abs(a[1]), a[2]>>

\* partial_cmp of two finite values
RatCmp(a, b) ==
    IF a[1] * b[2] < b[1] * a[2] THEN "Less"
    ELSE IF a[1] * b[2] = b[1] * a[2] THEN "Equal"
    ELSE "Greater"

\* the position of the idx-th point (0-based) of a 1-dimensional line
Position(l, idx) == <<At(l, idx)[1], 1>>

\* lib.rs, total_length
RECURSIVE total_length(_)
total_length(l) ==
    IF Len(l) < 2 THEN 0
    ELSE Abs(l[2][1] - l[1][1]) + total_length(Tail(l))

\* resample, lines 84-89: the sample distance, or the panic on a line of
\* length zero
Resample ==
    /\ pc = "resample"
    /\ IF total_length(line) = 0
       THEN /\ pc' = "panic"
            /\ UNCHANGED sample_distance
       ELSE /\ pc' = "sample_every"
            /\ sample_distance' = Rat(total_length(line), n_points - 1)
    /\ sample_offset' = <<0, 1>>
    /\ UNCHANGED <<line, out, prev, next, iter, remaining_dist, remainder,
                   rdpVars, vwVars, convVars, maVars>>

\* sample_every, lines 22-27
ValidSample == sample_distance[1] > 0 /\ sample_offset[1] >= 0

SampleInvalid ==
    /\ pc = "sample_every"
    /\ ~ValidSample
    /\ pc' = "panic"
    /\ UNCHANGED <<line, out, sampleVars, rdpVars, vwVars, convVars, maVars>>

\* sample_every, lines 28-31
SampleShortLine ==
    /\ pc = "sample_every"
    /\ ValidSample
    /\ Len(line) <= 1
    /\ out' = [i \in 1..Len(line) |-> Position(line, i - 1)]
    /\ remainder' = <<0, 1>>
    /\ pc' = "done"
    /\ UNCHANGED <<line, sample_distance, sample_offset, prev, next, iter, remaining_dist,
                   rdpVars, vwVars, convVars, maVars>>

\* sample_every, lines 32-41
SampleStart ==
    /\ pc = "sample_every"
    /\ ValidSample
    /\ Len(line) > 1
    /\ prev' = Position(line, 0)
    /\ IF sample_offset[1] = 0
       THEN /\ out' = <<Position(line, 0)>>
            /\ remaining_dist' = sample_distance
       ELSE /\ out' = <<>>
            /\ remaining_dist' = sample_offset
    /\ next' = Position(line, 1)
    /\ iter' = 2
    /\ pc' = "sample_loop"
    /\ UNCHANGED <<line, sample_distance, sample_offset, remainder,
                   rdpVars, vwVars, convVars, maVars>>

\* sample_every, lines 44-45
edge_length == RatAbs(RatSub(next, prev))

\* a faulty step that always moves towards greater coordinates
AdvanceForward == RatAdd(prev, remaining_dist)

\* sample_every, line 49: prev += (vec / edge_length) * remaining_dist
Advance ==
    IF RatCmp(next, prev) = "Greater" THEN RatAdd(prev, remaining_dist)
    ELSE RatSub(prev, remaining_dist)

\* sample_every, line 73, after the break
Returns(remaining) ==
    /\ remainder' = RatSub(sample_distance, remaining)
    /\ pc' = "done"

\* sample_every, lines 48-52
SampleLess ==
    /\ pc = "sample_loop"
    /\ RatCmp(remaining_dist, edge_length) = "Less"
    /\ prev' = Advance
    /\ out' = Append(out, Advance)
    /\ remaining_dist' = sample_distance
    /\ UNCHANGED <<pc, line, sample_distance, sample_offset, next, iter, remainder,
                   rdpVars, vwVars, convVars, maVars>>

\* sample_every, lines 53-62
SampleEqual ==
    /\ pc = "sample_loop"
    /\ RatCmp(remaining_dist, edge_length) = "Equal"
    /\ prev' = next
    /\ out' = Append(out, next)
    /\ IF iter >= Len(line)
       THEN /\ remaining_dist' = <<0, 1>>
            /\ Returns(<<0, 1>>)
            /\ UNCHANGED <<next, iter>>
       ELSE /\ next' = Position(line, iter)
            /\ iter' = iter + 1
            /\ remaining_dist' = sample_distance
            /\ UNCHANGED <<pc, remainder>>
    /\ UNCHANGED <<line, sample_distance, sample_offset,
                   rdpVars, vwVars, convVars, maVars>>

\* sample_every, lines 63-69
SampleGreater ==
    /\ pc = "sample_loop"
    /\ RatCmp(remaining_dist, edge_length) = "Greater"
    /\ prev' = next
    /\ remaining_dist' = RatSub(remaining_dist, edge_length)
    /\ IF iter >= Len(line)
       THEN /\ Returns(RatSub(remaining_dist, edge_length))
            /\ UNCHANGED <<next, iter>>
       ELSE /\ next' = Position(line, iter)
            /\ iter' = iter + 1
            /\ UNCHANGED <<pc, remainder>>
    /\ UNCHANGED <<line, out, sample_distance, sample_offset,
                   rdpVars, vwVars, convVars, maVars>>

\* a call of resample(line, n_points), n_points >= 2, or of
\* sample_every(line, sample_distance, offset)
InitSample ==
    /\ line \in LinesSample
    /\ \/ /\ pc = "resample"
          /\ n_points \in 2..MaxPoints
          /\ sample_distance = <<0, 1>>
          /\ sample_offset = <<0, 1>>
       \/ /\ pc = "sample_every"
          /\ n_points = 0
          /\ sample_distance \in {<<d, 1>> : d \in 0..MaxSampleDist}
          /\ sample_offset \in {<<o, 1>> : o \in 0..MaxOffset}
    /\ prev = <<0, 1>>
    /\ next = <<0, 1>>
    /\ iter = 0
    /\ remaining_dist = <<0, 1>>
    /\ remainder = <<0, 1>>
    /\ out = <<>>
    /\ closed = FALSE
    /\ queue = {}
    /\ drop = {}
    /\ exit = "none"
    /\ trace = <<>>
    /\ tied = FALSE
    /\ IdleRdp
    /\ IdleConv
    /\ IdleMa

NextSample ==
    \/ Resample
    \/ SampleInvalid
    \/ SampleShortLine
    \/ SampleStart
    \/ SampleLess
    \/ SampleEqual
    \/ SampleGreater

SpecSample == InitSample /\ [][NextSample]_vars

----------------------------------------------------------------------------
(* Claims about resample and sample_every *)

SampleEnded == pc \in {"done", "panic"}

\* the position at the distance s (an integer number of 1/den) along the
\* path, from the i-th point (1-based) of the line on
RECURSIVE PathFrom(_, _, _, _)
PathFrom(l, i, s, den) ==
    IF i >= Len(l) THEN <<l[Len(l)][1], 1>>
    ELSE LET e == Abs(l[i + 1][1] - l[i][1]) * den
         IN  IF s <= e /\ (s < e \/ e > 0 \/ i + 1 = Len(l))
             THEN IF l[i + 1][1] >= l[i][1]
                  THEN Rat(l[i][1] * den + s, den)
                  ELSE Rat(l[i][1] * den - s, den)
             ELSE PathFrom(l, i + 1, s - e, den)

\* C16: for every line of positive total length and every n_points >= 2,
\* resample returns exactly n_points points, the first the line's first
\* point, the last the line's last point, consecutive points one
\* total_length / (n_points - 1) apart along the path (exact arithmetic).
C16_ResampleEvenly ==
    (SampleEnded /\ n_points >= 2 /\ total_length(line) > 0) =>
        /\ pc = "done"
        /\ Len(out) = n_points
        /\ out[1] = Position(line, 0)
        /\ out[n_points] = Position(line, Len(line) - 1)
        /\ \A k \in 1..n_points :
               out[k] = PathFrom(line, 1, (k - 1) * total_length(line), n_points - 1)

\* C16 witness: resample returned 4 points of a line that turns back, one of
\* them between two vertices
C16_Witness ==
    /\ pc = "done"
    /\ n_points = 4
    /\ Len(line) = 3
    /\ line[2][1] > line[3][1]
    /\ \E k \in DOMAIN out : out[k][2] # 1

\* C17: sample_every reduces every line of at least 2 points whose total
\* length is shorter than sample_distance + offset to exactly one point, for
\* every positive sample_distance and non-negative offset.
C17_SampleShortToOnePoint ==
    (/\ SampleEnded
     /\ n_points = 0
     /\ ValidSample
     /\ Len(line) >= 2
     /\ RatCmp(<<total_length(line), 1>>, RatAdd(sample_distance, sample_offset)) = "Less") =>
        (pc = "done" /\ Len(out) = 1)

====
